---- MODULE Spec2Model ----
(***************************************************************************)
(* A model of cognite.experimental's data classes:                         *)
(*   - AssetList._retrieve_related_resources (data_classes/assets.py): the *)
(*     batched, concurrent, de-duplicating retrieval of related resources; *)
(*   - ContextualizationJob / EntityMatchingModel / EntityMatchingPipeline-*)
(*     Run (data_classes/contextualization.py): status polling, waiting    *)
(*     for completion, the lazily cached result, predict and refit;        *)
(*   - convert_true_match and EntityMatchingModel.dump_entities;           *)
(*   - AssetUpdate's put / remove functions and Asset.parent.              *)
(* The parts share no state; each has its own specification (SpecFanout   *)
(* and SpecFanoutTwice, SpecJob and SpecWaitFair, SpecMatch, SpecAsset)    *)
(* over the one set of variables.                                          *)
(***************************************************************************)
EXTENDS Integers, Sequences, FiniteSets, TLC

VARIABLES
    \* ---- AssetList._retrieve_related_resources ----
    ids,          \* [a.id for a in self.data]
    max_workers,  \* resource_api._config.max_workers
    rpc,          \* position of the resolver call: idle, running, returned, raised
    tasks,        \* the batches, one {"asset_ids": ...} per task
    wpc,          \* per task: position of its retrieve_and_deduplicate call
    res,          \* per task: the sequence resource_api.list returned
    wresources,   \* per task: the worker's local `resources`
    pos,          \* per task: the place of the for loop in res
    seen,         \* the shared set of resource ids
    lock,         \* threading.Lock: 0 when free, else the task holding it
    list_calls,   \* per task: the limit argument of every list request issued for it
    resources,    \* the collection returned to the caller
    \* ---- an earlier invocation on the same AssetList ----
    resolved_before, \* whether the resolver has run to its return before
    prev_res,        \* per task: what the list requests of that invocation returned
    prev_ids,        \* the ids of the collection that invocation returned
    \* ---- job handles ----
    kind,             \* self.__class__.__name__
    job_id,           \* self.job_id (self.id on a model)
    status,
    request_timestamp,
    start_timestamp,
    status_timestamp,
    error_message,
    _result,          \* the cached payload (jobs only)
    jpc,              \* position of the running operation: idle, poll, sleep, post
    op,               \* the operation in progress or last finished
    outcome,          \* how the last operation ended
    op_polls,         \* status requests issued by the operation so far
    last_data,        \* the last poll response of the operation
    sleeps,           \* time.sleep calls of the operation so far
    submitted,        \* the request predict / refit has posted in this call
    new_handle,       \* the object predict / refit returned
    fitted,           \* classifier, feature_type, match_fields of a model
    before,           \* fields of the handle when the running operation was entered
    \* ---- convert_true_match and dump_entities ----
    true_match,       \* the argument of convert_true_match
    converted,        \* what convert_true_match returned
    entities,         \* the argument of dump_entities
    dumped,           \* what dump_entities returned
    \* ---- AssetUpdate and Asset.parent ----
    _update_object,   \* self._update_object of the AssetUpdate
    calls,            \* the put / remove calls made on the AssetUpdate, in order
    update_outcome,   \* how the last call or property access on the AssetUpdate ended
    parent_id,        \* self.parent_id of the Asset
    retrieve_requests,\* the ids of the retrieve requests of the last call of parent()
    parent_outcome    \* how the last call of parent() ended

fanoutVars == <<ids, max_workers, rpc, tasks, wpc, res, wresources, pos, seen, lock,
                list_calls, resources>>
jobVars == <<kind, job_id, status, request_timestamp, start_timestamp,
             status_timestamp, error_message, _result, jpc, op, outcome,
             op_polls, last_data, sleeps, submitted, new_handle, fitted, before>>
earlierVars == <<resolved_before, prev_res, prev_ids>>
matchVars == <<true_match, converted, entities, dumped>>
assetVars == <<_update_object, calls, update_outcome, parent_id, retrieve_requests,
               parent_outcome>>
notFanoutVars == <<earlierVars, jobVars, matchVars, assetVars>>
notJobVars == <<fanoutVars, earlierVars, matchVars, assetVars>>
notMatchVars == <<fanoutVars, earlierVars, jobVars, assetVars>>
notAssetVars == <<fanoutVars, earlierVars, jobVars, matchVars>>
vars == <<fanoutVars, earlierVars, jobVars, matchVars, assetVars>>

Null == "None"

\* Python's None as a tagged value, and the mark of a function not called yet.
NoneValue == [t |-> "None"]
NotCalled == [t |-> "<not called>"]

\* {}
EmptyDict == [k \in {} |-> Null]

\* The resolver has not run on the AssetList before.
NoEarlier ==
    /\ resolved_before = FALSE
    /\ prev_res = <<>>
    /\ prev_ids = {}

\* No argument prepared for convert_true_match and dump_entities.
MatchUnused ==
    /\ true_match = NoneValue
    /\ converted = NotCalled
    /\ entities = NoneValue
    /\ dumped = NotCalled

\* No AssetUpdate and no Asset in use.
AssetUnused ==
    /\ _update_object = EmptyDict
    /\ calls = <<>>
    /\ update_outcome = [of |-> Null, raised |-> Null]
    /\ parent_id = Null
    /\ retrieve_requests = <<>>
    /\ parent_outcome = Null

(***************************************************************************)
(* Bounds of the model.                                                    *)
(***************************************************************************)
MaxAssets == 201     \* largest parent collection
MaxPool == 2         \* largest max_workers
MaxAssetsTwice == 101 \* largest parent collection that is resolved twice
MaxPolls == 3        \* most status requests one operation issues
MaxTupleLen == 3     \* longest tuple given as a true match
MaxEntities == 2     \* longest list of entities
MaxCalls == 3        \* most put / remove calls on one AssetUpdate

\* The related resources the server knows, by id.
ResIds == {100, 101}

(***************************************************************************)
(* AssetList._retrieve_related_resources                                   *)
(***************************************************************************)
_retrieve_chunk_size == 100

\* The limit argument of resource_api.list: -1, unbounded.
ListLimit == -1

Min(a, b) == IF a < b THEN a ELSE b

\* Python's s[a:b] for 0 <= a <= b.
Slice(s, a, b) == SubSeq(s, a + 1, Min(b, Len(s)))

\* Variant: each slice one id short, ids[i : i + chunk - 1].
RECURSIVE BuildTasksOffByOne(_, _)
BuildTasksOffByOne(s, i) ==
    IF i >= Len(s) THEN <<>>
    ELSE <<Slice(s, i, i + _retrieve_chunk_size - 1)>>
             \o BuildTasksOffByOne(s, i + _retrieve_chunk_size)

\* The loop over range(i, len(ids), chunk), appending ids[i : i + chunk].
RECURSIVE BuildTasksFrom(_, _)
BuildTasksFrom(s, i) ==
    IF i >= Len(s) THEN <<>>
    ELSE <<Slice(s, i, i + _retrieve_chunk_size)>>
             \o BuildTasksFrom(s, i + _retrieve_chunk_size)

\* Variant: an empty id list still makes one, empty, task.
BuildTasksOneEmpty(s) ==
    IF Len(s) = 0 THEN << <<>> >> ELSE BuildTasksFrom(s, 0)

\* for i in range(0, len(ids), chunk): tasks.append(ids[i : i + chunk])
BuildTasks(s) == BuildTasksFrom(s, 0)

\* Variant: the membership test inverted.
SeenAlready(x, sn) == x \in sn

\* if resource.id not in seen
NotSeen(x, sn) == x \notin sn

\* Variant: the lock covers one append, not the loop: it can be taken while the
\* holder is between two resources.
LockPerResource == IF lock = 0 THEN TRUE ELSE wpc[lock] # "adding"

\* Variant: the merge runs without waiting for the lock.
LockIgnored == TRUE

\* with lock: the lock can be taken only when no worker holds it.
LockFree == lock = 0

\* resources.extend(res) for res in res_list
RECURSIVE Extend(_, _)
Extend(order, outs) ==
    IF order = <<>> THEN <<>>
    ELSE outs[Head(order)] \o Extend(Tail(order), outs)

Range(s) == {s[i] : i \in DOMAIN s}

\* The sequences over S of length at most n.
RECURSIVE SeqsUpTo(_, _)
SeqsUpTo(S, n) ==
    IF n = 0 THEN {<<>>}
    ELSE LET shorter == SeqsUpTo(S, n - 1)
         IN  shorter \cup {Append(s, x) : s \in shorter, x \in S}

NoDuplicates(s) == \A i, j \in DOMAIN s : i # j => s[i] # s[j]

\* What a list request may answer: any of the resources, each once, in any order.
Responses == {s \in SeqsUpTo(ResIds, Cardinality(ResIds)) : NoDuplicates(s)}

Tasks == DOMAIN tasks

Terminal(i) == wpc[i] \in {"done", "failed"}

Active == {i \in Tasks : wpc[i] \in {"listing", "fetched", "merging", "adding"}}

\* The orders in which the executor may hand back the results of the tasks in D.
Orders(D) ==
    {o \in [1..Cardinality(D) -> D] : \A i, j \in DOMAIN o : i # j => o[i] # o[j]}

FanoutIdle ==
    /\ ids \in {[i \in 1..n |-> i] : n \in 0..MaxAssets}
    /\ max_workers \in 1..MaxPool
    /\ rpc = "idle"
    /\ tasks = <<>>
    /\ wpc = <<>>
    /\ res = <<>>
    /\ wresources = <<>>
    /\ pos = <<>>
    /\ seen = {}
    /\ lock = 0
    /\ list_calls = <<>>
    /\ resources = <<>>
    /\ NoEarlier

\* Variant: the seen-set outlives the invocation.
SeenKept == seen

\* seen = set()
FreshSeen == {}

\* _retrieve_related_resources up to the dispatch of the tasks.
Resolve ==
    /\ rpc = "idle"
    /\ rpc' = "running"
    /\ seen' = FreshSeen
    /\ lock' = 0
    /\ tasks' = BuildTasks(ids)
    /\ wpc' = [i \in DOMAIN tasks' |-> "pending"]
    /\ res' = [i \in DOMAIN tasks' |-> <<>>]
    /\ wresources' = [i \in DOMAIN tasks' |-> <<>>]
    /\ pos' = [i \in DOMAIN tasks' |-> 0]
    /\ list_calls' = [i \in DOMAIN tasks' |-> <<>>]
    /\ UNCHANGED <<ids, max_workers, resources>>
    /\ UNCHANGED notFanoutVars

\* The executor starts task i on a free worker, which issues its list request.
StartWorker(i) ==
    /\ rpc = "running"
    /\ wpc[i] = "pending"
    /\ Cardinality(Active) < max_workers
    /\ wpc' = [wpc EXCEPT ![i] = "listing"]
    /\ list_calls' = [list_calls EXCEPT ![i] = Append(@, ListLimit)]
    /\ UNCHANGED <<ids, max_workers, rpc, tasks, res, wresources, seen, lock, resources>>
    /\ UNCHANGED pos
    /\ UNCHANGED notFanoutVars

\* res = resource_api.list(...); resources = resource_list_class([])
ListReturn(i, r) ==
    /\ wpc[i] = "listing"
    /\ wpc' = [wpc EXCEPT ![i] = "fetched"]
    /\ res' = [res EXCEPT ![i] = r]
    /\ UNCHANGED <<ids, max_workers, rpc, tasks, wresources, seen, lock, list_calls, resources>>
    /\ UNCHANGED pos
    /\ UNCHANGED notFanoutVars

\* resource_api.list raises.
ListFail(i) ==
    /\ wpc[i] = "listing"
    /\ wpc' = [wpc EXCEPT ![i] = "failed"]
    /\ UNCHANGED <<ids, max_workers, rpc, tasks, res, wresources, seen, lock, list_calls, resources>>
    /\ UNCHANGED pos
    /\ UNCHANGED notFanoutVars

\* with lock: the worker waits for the lock and takes it; the for loop starts.
AcquireLock(i) ==
    /\ wpc[i] = "fetched"
    /\ LockFree
    /\ lock' = i
    /\ wpc' = [wpc EXCEPT ![i] = "merging"]
    /\ pos' = [pos EXCEPT ![i] = 1]
    /\ UNCHANGED <<ids, max_workers, rpc, tasks, res, wresources, seen, list_calls, resources>>
    /\ UNCHANGED notFanoutVars

\* for resource in res: if resource.id not in seen
CheckSeen(i) ==
    /\ wpc[i] = "merging"
    /\ pos[i] <= Len(res[i])
    /\ IF NotSeen(res[i][pos[i]], seen)
       THEN /\ wpc' = [wpc EXCEPT ![i] = "adding"]
            /\ UNCHANGED pos
       ELSE /\ pos' = [pos EXCEPT ![i] = @ + 1]
            /\ UNCHANGED wpc
    /\ UNCHANGED <<ids, max_workers, rpc, tasks, res, wresources, seen, lock, list_calls, resources>>
    /\ UNCHANGED notFanoutVars

\* resources.append(resource); seen.add(resource.id)
AppendAndAdd(i) ==
    /\ wpc[i] = "adding"
    /\ wresources' = [wresources EXCEPT ![i] = Append(@, res[i][pos[i]])]
    /\ seen' = seen \cup {res[i][pos[i]]}
    /\ pos' = [pos EXCEPT ![i] = @ + 1]
    /\ wpc' = [wpc EXCEPT ![i] = "merging"]
    /\ UNCHANGED <<ids, max_workers, rpc, tasks, res, lock, list_calls, resources>>
    /\ UNCHANGED notFanoutVars

\* The for loop is over: the with block releases the lock, the worker returns.
ReleaseLock(i) ==
    /\ wpc[i] = "merging"
    /\ pos[i] > Len(res[i])
    /\ lock' = 0
    /\ wpc' = [wpc EXCEPT ![i] = "done"]
    /\ UNCHANGED <<ids, max_workers, rpc, tasks, res, wresources, seen, pos, list_calls, resources>>
    /\ UNCHANGED notFanoutVars

\* execute_tasks_concurrently(...).results, then the extend loop and the return.
\* The order of the results is the executor's.
FinishReturn ==
    /\ rpc = "running"
    /\ \A i \in Tasks : wpc[i] = "done"
    /\ \E o \in Orders(Tasks) : resources' = Extend(o, wresources)
    /\ rpc' = "returned"
    /\ UNCHANGED <<ids, max_workers, tasks, wpc, res, wresources, seen, lock, list_calls>>
    /\ UNCHANGED pos
    /\ UNCHANGED notFanoutVars

\* A task raised. Whether the executor raises or its summary's .results holds
\* the results of the tasks that succeeded is the executor's: both are possible.
FinishFailed ==
    /\ rpc = "running"
    /\ \A i \in Tasks : Terminal(i)
    /\ \E i \in Tasks : wpc[i] = "failed"
    /\ \/ /\ rpc' = "raised"
          /\ UNCHANGED resources
       \/ /\ rpc' = "returned"
          /\ \E o \in Orders({i \in Tasks : wpc[i] = "done"}) :
                resources' = Extend(o, wresources)
    /\ UNCHANGED <<ids, max_workers, tasks, wpc, res, wresources, seen, lock, list_calls>>
    /\ UNCHANGED pos
    /\ UNCHANGED notFanoutVars

NextFanout ==
    \/ Resolve
    \/ \E i \in Tasks : StartWorker(i)
    \/ \E i \in Tasks : \E r \in Responses : ListReturn(i, r)
    \/ \E i \in Tasks : ListFail(i)
    \/ \E i \in Tasks : AcquireLock(i)
    \/ \E i \in Tasks : CheckSeen(i)
    \/ \E i \in Tasks : AppendAndAdd(i)
    \/ \E i \in Tasks : ReleaseLock(i)
    \/ FinishReturn
    \/ FinishFailed

(***************************************************************************)
(* Job handles: ContextualizationJob, EntityMatchingModel,                 *)
(* EntityMatchingPipelineRun                                               *)
(***************************************************************************)
Kinds == {"ContextualizationJob", "EntityMatchingModel", "EntityMatchingPipelineRun"}

IsModel == kind = "EntityMatchingModel"

JobIds == {7}

Statuses == {"Queued", "Running", "Completed", "Failed", "Timeout"}

Keys == {"status", "jobId", "errorMessage", "requestTimestamp", "startTimestamp",
         "statusTimestamp", "items"}

\* Marks a key the response does not hold.
Absent == "<absent>"

\* A handle that holds no payload (self._result = None), and an operation that has
\* had no poll response.
NoResult == [None |-> Null]
NoData == [None |-> Null]
NoOutcome == [type |-> Null, name |-> Null, id |-> 0, msg |-> Null]

\* No request posted, no object returned, no fields remembered.
NoRequest == [path |-> Null, id |-> 0]
NoHandle == [kind |-> Null, id |-> 0]
NoSnapshot == [None |-> Null]

\* The fitted-state fields of a model; a job has none.
Fitted(k) ==
    IF k = "EntityMatchingModel"
    THEN [classifier |-> "randomforest", feature_type |-> "simple",
          match_fields |-> "name"]
    ELSE [classifier |-> Null, feature_type |-> Null, match_fields |-> Null]

\* The ids the server gives to the job of a predict request and to a refitted model.
NewIds == {8}

Present(raw, k) == k \in {"status", "jobId"} \/ raw[k] # Absent

\* The JSON objects a status request may answer: status and the id asked for are
\* always there, every other field may be missing.
Datas ==
    {[k \in {k \in Keys : Present(raw, k)} |-> raw[k]] :
        raw \in [status : Statuses,
                 jobId : JobIds,
                 errorMessage : {Absent, "boom"},
                 requestTimestamp : {Absent, "2000"},
                 startTimestamp : {Absent, "1500"},
                 statusTimestamp : {Absent, "1700"},
                 items : {Absent, "m1"}]}

\* dict.get(k)
Get(d, k) == IF k \in DOMAIN d THEN d[k] ELSE Null

\* Python's truth value of a timestamp or None: None is false, and so is the
\* number 0 (timestamps are written as strings here, "0" is the number 0).
Truthy(v) == v \notin {Null, "0"}

\* Python's truth value of self._result: None and the empty dict are false.
TruthyDict(r) == r # NoResult /\ DOMAIN r # {}

ContextualizationJobCommonFields ==
    {"status", "jobId", "errorMessage", "requestTimestamp", "startTimestamp",
     "statusTimestamp"}

\* _COMMON_FIELDS of the handle's class.
COMMON_FIELDS(k) ==
    IF k = "EntityMatchingPipelineRun"
    THEN ContextualizationJobCommonFields \cap {"pipeline_id"}
    ELSE ContextualizationJobCommonFields

\* self._result after update_status; a model keeps no payload.
StoredResult(k, d, old) ==
    IF k = "EntityMatchingModel" THEN old
    ELSE [f \in DOMAIN d \ COMMON_FIELDS(k) |-> d[f]]

\* self.request_timestamp or data.get("requestTimestamp")
OrElse(a, b) == IF Truthy(a) THEN a ELSE b

\* Variant: the loop is left on Completed only.
LoopExitOnlyCompleted(s) == s = "Completed"

\* Variant: the loop goes on while the status is Queued only.
LoopExitOnRunning(s) == s # "Queued"

\* The loop exit test of wait_for_completion.
LoopExit(s) == s \notin {"Queued", "Running"}

\* Variant: the test after the loop compares with the wrong spelling.
IsFailedLowerCase(s) == s = "failed"

\* Variant: every status but Completed counts as a failure.
IsFailedNotCompleted(s) == s # "Completed"

\* The test after the loop: if self.status == "Failed"
IsFailed(s) == s = "Failed"

\* ModelFailedException(self.__class__.__name__, self.job_id, self.error_message)
ModelFailedException(nm, id, msg) ==
    [type |-> "ModelFailedException", name |-> nm, id |-> id, msg |-> msg]

Returned == [type |-> "returned", name |-> Null, id |-> 0, msg |-> Null]

TransportError == [type |-> "TransportError", name |-> Null, id |-> 0, msg |-> Null]

\* The post of predict or refit raises.
PostError == [type |-> "PostError", name |-> Null, id |-> 0, msg |-> Null]

Inc(n, cap) == IF n < cap THEN n + 1 ELSE n

JobIdle ==
    /\ kind = Null
    /\ job_id = 0
    /\ status = Null
    /\ request_timestamp = Null
    /\ start_timestamp = Null
    /\ status_timestamp = Null
    /\ error_message = Null
    /\ _result = NoResult
    /\ jpc = "idle"
    /\ op = Null
    /\ outcome = NoOutcome
    /\ op_polls = 0
    /\ last_data = NoData
    /\ sleeps = 0
    /\ submitted = NoRequest
    /\ new_handle = NoHandle
    /\ fitted = Fitted(kind)
    /\ before = NoSnapshot

InitFanout == FanoutIdle /\ JobIdle /\ MatchUnused /\ AssetUnused

SpecFanout == InitFanout /\ [][NextFanout]_vars

\* The resolver is called again on the same AssetList after it has returned: a
\* new seen-set and a new lock, the same ids; what the first invocation was
\* answered and what it returned is remembered.
ResolveAgain ==
    /\ rpc = "returned"
    /\ ~resolved_before
    /\ resolved_before' = TRUE
    /\ prev_res' = res
    /\ prev_ids' = Range(resources)
    /\ rpc' = "running"
    /\ seen' = FreshSeen
    /\ lock' = 0
    /\ tasks' = BuildTasks(ids)
    /\ wpc' = [i \in DOMAIN tasks' |-> "pending"]
    /\ res' = [i \in DOMAIN tasks' |-> <<>>]
    /\ wresources' = [i \in DOMAIN tasks' |-> <<>>]
    /\ pos' = [i \in DOMAIN tasks' |-> 0]
    /\ list_calls' = [i \in DOMAIN tasks' |-> <<>>]
    /\ resources' = <<>>
    /\ UNCHANGED <<ids, max_workers>>
    /\ UNCHANGED <<jobVars, matchVars, assetVars>>

\* An AssetList of at most MaxAssetsTwice assets, not resolved yet.
FanoutIdleTwice ==
    /\ FanoutIdle
    /\ Len(ids) <= MaxAssetsTwice

InitFanoutTwice == FanoutIdleTwice /\ JobIdle /\ MatchUnused /\ AssetUnused

NextFanoutTwice ==
    \/ Resolve
    \/ ResolveAgain
    \/ \E i \in Tasks : StartWorker(i)
    \/ \E i \in Tasks : \E r \in Responses : ListReturn(i, r)
    \/ \E i \in Tasks : ListFail(i)
    \/ \E i \in Tasks : AcquireLock(i)
    \/ \E i \in Tasks : CheckSeen(i)
    \/ \E i \in Tasks : AppendAndAdd(i)
    \/ \E i \in Tasks : ReleaseLock(i)
    \/ FinishReturn
    \/ FinishFailed

SpecFanoutTwice == InitFanoutTwice /\ [][NextFanoutTwice]_vars

\* A job, a model or a pipeline run as __init__ leaves it, with the fields the
\* submitting request gave.
JobConstructed ==
    /\ kind \in Kinds
    /\ job_id \in JobIds
    /\ status \in {Null, "Queued"}
    /\ request_timestamp \in {Null, "0", "1000"}
    /\ start_timestamp = Null
    /\ status_timestamp = Null
    /\ error_message = Null
    /\ _result = NoResult
    /\ jpc = "idle"
    /\ op = Null
    /\ outcome = NoOutcome
    /\ op_polls = 0
    /\ last_data = NoData
    /\ sleeps = 0
    /\ submitted = NoRequest
    /\ new_handle = NoHandle
    /\ fitted = Fitted(kind)
    /\ before = NoSnapshot

FanoutUnused ==
    /\ ids = <<>>
    /\ max_workers = 1
    /\ rpc = "idle"
    /\ tasks = <<>>
    /\ wpc = <<>>
    /\ res = <<>>
    /\ wresources = <<>>
    /\ pos = <<>>
    /\ seen = {}
    /\ lock = 0
    /\ list_calls = <<>>
    /\ resources = <<>>
    /\ NoEarlier

\* The assignments of update_status from the response d.
ApplyStatus(d) ==
    /\ status' = d["status"]
    /\ status_timestamp' = Get(d, "statusTimestamp")
    /\ start_timestamp' = Get(d, "startTimestamp")
    /\ request_timestamp' = OrElse(request_timestamp, Get(d, "requestTimestamp"))
    /\ error_message' = Get(d, "errorMessage")
    /\ _result' = StoredResult(kind, d, _result)

HandleUnchanged ==
    UNCHANGED <<status, status_timestamp, start_timestamp, request_timestamp,
                error_message, _result>>

\* The fields of the handle that an operation is entered with: the id, the
\* fitted-state fields and, of the status fields, the status.
Snapshot == [id |-> job_id, status |-> status, fitted |-> fitted]

\* return self.status
ReturnedValue(v) == [type |-> "returned", name |-> Null, id |-> 0, msg |-> v]

\* Variant: update_status itself raises the job-failed error on a Failed response.
UpdateStatusRaising(d) ==
    /\ jpc = "idle"
    /\ ApplyStatus(d)
    /\ op' = "update_status"
    /\ op_polls' = 1
    /\ sleeps' = 0
    /\ last_data' = d
    /\ outcome' = IF IsFailed(status')
                  THEN ModelFailedException(kind, job_id, error_message')
                  ELSE ReturnedValue(status')
    /\ submitted' = NoRequest
    /\ new_handle' = NoHandle
    /\ UNCHANGED <<kind, job_id, jpc, fitted, before>>
    /\ UNCHANGED notJobVars

\* A call of update_status by the caller: one status request, answered by d.
UpdateStatus(d) ==
    /\ jpc = "idle"
    /\ ApplyStatus(d)
    /\ op' = "update_status"
    /\ op_polls' = 1
    /\ sleeps' = 0
    /\ last_data' = d
    /\ outcome' = ReturnedValue(status')
    /\ submitted' = NoRequest
    /\ new_handle' = NoHandle
    /\ UNCHANGED <<kind, job_id, jpc, fitted, before>>
    /\ UNCHANGED notJobVars

\* A call of update_status whose status request raises.
UpdateStatusFail ==
    /\ jpc = "idle"
    /\ HandleUnchanged
    /\ op' = "update_status"
    /\ op_polls' = 1
    /\ sleeps' = 0
    /\ last_data' = NoData
    /\ outcome' = TransportError
    /\ submitted' = NoRequest
    /\ new_handle' = NoHandle
    /\ UNCHANGED <<kind, job_id, jpc, fitted, before>>
    /\ UNCHANGED notJobVars

\* Entry of an operation that goes through wait_for_completion.
Enter(o) ==
    /\ op' = o
    /\ jpc' = "poll"
    /\ op_polls' = 0
    /\ sleeps' = 0
    /\ last_data' = NoData
    /\ outcome' = NoOutcome
    /\ submitted' = NoRequest
    /\ new_handle' = NoHandle
    /\ before' = Snapshot
    /\ HandleUnchanged
    /\ UNCHANGED <<kind, job_id, fitted>>
    /\ UNCHANGED notJobVars

CallWaitForCompletion ==
    /\ jpc = "idle"
    /\ Enter("wait_for_completion")

\* predict and refit wait for the model first.
CallPredict ==
    /\ jpc = "idle"
    /\ IsModel
    /\ Enter("predict")

CallRefit ==
    /\ jpc = "idle"
    /\ IsModel
    /\ Enter("refit")

\* An access to .result: the cached payload if it is true, else the wait.
CallResult ==
    /\ jpc = "idle"
    /\ ~IsModel
    /\ IF TruthyDict(_result)
       THEN /\ op' = "result"
            /\ op_polls' = 0
            /\ sleeps' = 0
            /\ last_data' = NoData
            /\ outcome' = Returned
            /\ submitted' = NoRequest
            /\ new_handle' = NoHandle
            /\ HandleUnchanged
            /\ UNCHANGED <<kind, job_id, jpc, fitted, before>>
            /\ UNCHANGED notJobVars
       ELSE Enter("result")

\* One turn of the loop of wait_for_completion: update_status, answered by d, the
\* exit test and, on exit, the raise or the return of wait_for_completion; from
\* there result returns, predict and refit go on to their post.
Poll(d) ==
    /\ jpc = "poll"
    /\ ApplyStatus(d)
    /\ op_polls' = Inc(op_polls, MaxPolls)
    /\ last_data' = d
    /\ UNCHANGED <<kind, job_id, op, sleeps, submitted, new_handle, fitted>>
    /\ UNCHANGED notJobVars
    /\ IF ~LoopExit(status')
       THEN /\ jpc' = "sleep"
            /\ UNCHANGED <<outcome, before>>
       ELSE IF IsFailed(status')
            THEN /\ jpc' = "idle"
                 /\ outcome' = ModelFailedException(kind, job_id, error_message')
                 /\ before' = NoSnapshot
            ELSE IF op \in {"predict", "refit"}
                 THEN /\ jpc' = "post"
                      /\ UNCHANGED <<outcome, before>>
                 ELSE /\ jpc' = "idle"
                      /\ outcome' = Returned
                      /\ before' = NoSnapshot

\* Variant: the loop swallows the error of the status request and tries again
\* after the sleep.
PollFailRetried ==
    /\ jpc = "poll"
    /\ op_polls' = Inc(op_polls, MaxPolls)
    /\ jpc' = "sleep"
    /\ HandleUnchanged
    /\ UNCHANGED <<kind, job_id, op, outcome, sleeps, last_data, submitted, new_handle,
                   fitted, before>>
    /\ UNCHANGED notJobVars

\* The status request of the loop raises: the error leaves wait_for_completion.
PollFail ==
    /\ jpc = "poll"
    /\ op_polls' = Inc(op_polls, MaxPolls)
    /\ jpc' = "idle"
    /\ outcome' = TransportError
    /\ before' = NoSnapshot
    /\ HandleUnchanged
    /\ UNCHANGED <<kind, job_id, op, sleeps, last_data, submitted, new_handle, fitted>>
    /\ UNCHANGED notJobVars

\* time.sleep(interval)
Sleep ==
    /\ jpc = "sleep"
    /\ jpc' = "poll"
    /\ sleeps' = Inc(sleeps, MaxPolls)
    /\ HandleUnchanged
    /\ UNCHANGED <<kind, job_id, op, outcome, op_polls, last_data, submitted,
                   new_handle, fitted, before>>
    /\ UNCHANGED notJobVars

\* The path predict and refit post to.
PostPath(o) == IF o = "predict" THEN "/predict" ELSE "/refit"

\* The class of the object predict (_run_job) and refit (self._load) return.
ReturnedKind(o) ==
    IF o = "predict" THEN "ContextualizationJob" ELSE "EntityMatchingModel"

\* Variant: refit loads the response into the model it was called on.
LoadedIntoSelf(self_id, response_id) == response_id

\* The id of the model after the post: predict and refit assign nothing to self.
SelfAfterPost(self_id, response_id) == self_id

\* The post of predict (_run_job on /predict) or refit (_camel_post on /refit),
\* answered with the id n, and the return of the new object.
Post(n) ==
    /\ jpc = "post"
    /\ submitted' = [path |-> PostPath(op), id |-> job_id]
    /\ new_handle' = [kind |-> ReturnedKind(op), id |-> n]
    /\ job_id' = SelfAfterPost(job_id, n)
    /\ jpc' = "idle"
    /\ outcome' = Returned
    /\ before' = NoSnapshot
    /\ HandleUnchanged
    /\ UNCHANGED <<kind, op, op_polls, last_data, sleeps, fitted>>
    /\ UNCHANGED notJobVars

\* The post raises.
PostFail ==
    /\ jpc = "post"
    /\ submitted' = [path |-> PostPath(op), id |-> job_id]
    /\ jpc' = "idle"
    /\ outcome' = PostError
    /\ before' = NoSnapshot
    /\ HandleUnchanged
    /\ UNCHANGED <<kind, job_id, op, op_polls, last_data, sleeps, new_handle, fitted>>
    /\ UNCHANGED notJobVars

InitJob == JobConstructed /\ FanoutUnused /\ MatchUnused /\ AssetUnused

NextJob ==
    \/ \E d \in Datas : d["jobId"] = job_id /\ UpdateStatus(d)
    \/ UpdateStatusFail
    \/ CallWaitForCompletion
    \/ CallPredict
    \/ CallRefit
    \/ CallResult
    \/ \E d \in Datas : d["jobId"] = job_id /\ Poll(d)
    \/ PollFail
    \/ Sleep
    \/ \E n \in NewIds : Post(n)
    \/ PostFail

SpecJob == InitJob /\ [][NextJob]_vars

\* A caller that does nothing but wait for completion.
NextWait ==
    \/ CallWaitForCompletion
    \/ \E d \in Datas : d["jobId"] = job_id /\ Poll(d)
    \/ PollFail
    \/ Sleep

\* The server answers a poll of the loop with a status outside Queued and Running.
TerminalDatas == {d \in Datas : LoopExit(d["status"])}

TerminalAnswer ==
    /\ jpc = "poll"
    /\ last_data' \in TerminalDatas
    /\ last_data'["jobId"] = job_id
    /\ Poll(last_data')

\* The server answers a poll of the loop with Running.
RunningAnswer ==
    /\ jpc = "poll"
    /\ \E d \in Datas : d["jobId"] = job_id /\ d["status"] = "Running" /\ Poll(d)

\* time.sleep returns, and a server that is polled again and again answers some
\* poll with a status outside Queued and Running.
SpecWaitFair ==
    InitJob /\ [][NextWait]_vars /\ WF_vars(Sleep) /\ SF_vars(TerminalAnswer)

(***************************************************************************)
(* convert_true_match and EntityMatchingModel.dump_entities.               *)
(* A Python value is a record tagged with its type; a tuple holds a        *)
(* sequence, a dict a function from its keys, a resource the dict its      *)
(* dump(camel_case=True) gives.                                            *)
(***************************************************************************)
PyStr(v) == [t |-> "str", v |-> v]
PyInt(v) == [t |-> "int", v |-> v]
PyFloat(v) == [t |-> "float", v |-> v]
PyTuple(q) == [t |-> "tuple", items |-> q]
PyDict(f) == [t |-> "dict", items |-> f]
PyList(q) == [t |-> "list", items |-> q]
PyResource(f) == [t |-> "resource", items |-> f]

\* The ids and external ids a true match is made of.
MatchEnds == {PyInt("1"), PyInt("2"), PyStr("a"), PyStr("b")}

\* The fields a true match given as a dict may hold.
MatchFields ==
    [fromId |-> PyInt("1"), toExternalId |-> PyStr("b"), score |-> PyFloat("0.9")]

\* The true matches given: tuples of any length up to the bound, and dicts with
\* any of the fields.
TrueMatches ==
    {PyTuple(q) : q \in UNION {[1..n -> MatchEnds] : n \in 0..MaxTupleLen}}
    \cup {PyDict([k \in K |-> MatchFields[k]]) : K \in SUBSET DOMAIN MatchFields}

\* isinstance(v, str)
IsStr(v) == v.t = "str"

\* Variant: the key is chosen the other way round.
KeyForSwapped(fromto, v) == IF IsStr(v) THEN fromto \o "Id" ELSE fromto \o "ExternalId"

\* fromto + "ExternalId" if isinstance(true_match[i], str) else fromto + "Id"
KeyFor(fromto, v) == IF IsStr(v) THEN fromto \o "ExternalId" ELSE fromto \o "Id"

convert_true_match(tm) ==
    IF tm.t # "dict" /\ Len(tm.items) = 2
    THEN LET kfrom == KeyFor("from", tm.items[1])
             kto == KeyFor("to", tm.items[2])
         IN PyDict([k \in {kfrom, kto} |-> IF k = kfrom THEN tm.items[1] ELSE tm.items[2]])
    ELSE tm

\* The fields an entity may hold.
EntityFields == [id |-> PyInt("7"), name |-> PyStr("pump"), score |-> PyFloat("0.9")]

\* The entities given: resources and plain dicts with any of the fields.
Entities ==
    {PyResource([k \in K |-> EntityFields[k]]) : K \in SUBSET DOMAIN EntityFields}
    \cup {PyDict([k \in K |-> EntityFields[k]]) : K \in SUBSET DOMAIN EntityFields}

\* The arguments of dump_entities: None, or a list of entities.
EntityLists ==
    {NoneValue} \cup {PyList(q) : q \in UNION {[1..n -> Entities] : n \in 0..MaxEntities}}

\* {k: v for k, v in ... if isinstance(v, str) or k == "id"}
StringsAndId(f) == [k \in {k \in DOMAIN f : IsStr(f[k]) \/ k = "id"} |-> f[k]]

\* One element of the list dump_entities builds: a resource is dumped and
\* filtered, anything else is passed on as it is.
DumpEntity(e) == IF e.t = "resource" THEN PyDict(StringsAndId(e.items)) ELSE e

\* if entities: (None and the empty list are false)
TruthyList(l) == l.t = "list" /\ Len(l.items) > 0

dump_entities(l) ==
    IF TruthyList(l)
    THEN PyList([i \in 1..Len(l.items) |-> DumpEntity(l.items[i])])
    ELSE NoneValue

\* The caller has one argument at hand, a true match or a list of entities.
MatchArguments ==
    /\ \/ true_match \in TrueMatches /\ entities = NoneValue
       \/ true_match = NoneValue /\ entities \in EntityLists
    /\ converted = NotCalled
    /\ dumped = NotCalled

ConvertTrueMatch ==
    /\ true_match # NoneValue
    /\ converted = NotCalled
    /\ converted' = convert_true_match(true_match)
    /\ UNCHANGED <<true_match, entities, dumped>>
    /\ UNCHANGED notMatchVars

DumpEntities ==
    /\ true_match = NoneValue
    /\ dumped = NotCalled
    /\ dumped' = dump_entities(entities)
    /\ UNCHANGED <<true_match, entities, converted>>
    /\ UNCHANGED notMatchVars

InitMatch == MatchArguments /\ FanoutUnused /\ JobIdle /\ AssetUnused

NextMatch ==
    \/ ConvertTrueMatch
    \/ DumpEntities

SpecMatch == InitMatch /\ [][NextMatch]_vars

(***************************************************************************)
(* AssetUpdate: put_type, remove_type, put_label, remove_label and the     *)
(* types and labels properties; Asset.parent.                              *)
(***************************************************************************)

\* The type references and label external ids the caller passes.
TypeRefs ==
    {[properties |-> "props-a", version |-> "1", id |-> "5", external_id |-> Null],
     [properties |-> "props-b", version |-> "2", id |-> Null, external_id |-> "pump-type"]}
LabelRefs == {[external_id |-> "PUMP"], [external_id |-> "VALVE"]}

\* The entry each function appends, from its arguments.
PutTypeEntry(a) ==
    [type |-> [id |-> a.id, externalId |-> a.external_id, version |-> a.version],
     properties |-> a.properties]
RemoveTypeEntry(a) == [id |-> a.id, externalId |-> a.external_id, version |-> a.version]
LabelEntry(a) == [externalId |-> a.external_id]

\* self._update_object[field][bucket], the empty list when it is not there.
Bucket(obj, field, bucket) ==
    IF field \in DOMAIN obj /\ bucket \in DOMAIN obj[field]
    THEN obj[field][bucket]
    ELSE <<>>

\* Variant: the list is made anew at every call.
AppendToNewList(obj, field, bucket, e) ==
    LET inner == IF field \in DOMAIN obj THEN obj[field] ELSE EmptyDict
        inner2 == [k \in DOMAIN inner \cup {bucket} |->
                      IF k = bucket THEN <<e>> ELSE inner[k]]
    IN [k \in DOMAIN obj \cup {field} |-> IF k = field THEN inner2 ELSE obj[k]]

\* The body the four functions share: make obj[field] and obj[field][bucket] if
\* they are None, then append e.
AppendTo(obj, field, bucket, e) ==
    LET inner == IF field \in DOMAIN obj THEN obj[field] ELSE EmptyDict
        list == IF bucket \in DOMAIN inner THEN inner[bucket] ELSE <<>>
        inner2 == [k \in DOMAIN inner \cup {bucket} |->
                      IF k = bucket THEN Append(list, e) ELSE inner[k]]
    IN [k \in DOMAIN obj \cup {field} |-> IF k = field THEN inner2 ELSE obj[k]]

ReturnedSelf(fn) == [of |-> fn, raised |-> Null]

\* A put or remove call: the append, and the call noted with its arguments.
UpdateCall(fn, a, field, bucket, e) ==
    /\ _update_object' = AppendTo(_update_object, field, bucket, e)
    /\ calls' = Append(calls, [fn |-> fn, args |-> a])
    /\ update_outcome' = ReturnedSelf(fn)
    /\ UNCHANGED <<parent_id, retrieve_requests, parent_outcome>>
    /\ UNCHANGED notAssetVars

put_type(a) ==
    /\ Len(calls) < MaxCalls
    /\ UpdateCall("put_type", a, "types", "put", PutTypeEntry(a))

remove_type(a) ==
    /\ Len(calls) < MaxCalls
    /\ UpdateCall("remove_type", a, "types", "remove", RemoveTypeEntry(a))

put_label(a) ==
    /\ Len(calls) < MaxCalls
    /\ UpdateCall("put_label", a, "labels", "put", LabelEntry(a))

remove_label(a) ==
    /\ Len(calls) < MaxCalls
    /\ UpdateCall("remove_label", a, "labels", "remove", LabelEntry(a))

\* Variant: the property hands out a primitive update, whose set writes the field.
SettableProperty(obj, name) ==
    [raised |-> Null,
     obj |-> [k \in DOMAIN obj \cup {name} |->
                 IF k = name THEN [set |-> <<>>] ELSE obj[k]]]

\* The types and labels properties: raise Exception("Use the ... functions ...").
GuardedProperty(obj, name) ==
    [raised |-> "Exception: Use the put and remove functions", obj |-> obj]

\* The caller reads update.types or update.labels to set the field.
AccessProperty(name) ==
    LET r == GuardedProperty(_update_object, name)
    IN /\ update_outcome' = [of |-> name, raised |-> r.raised]
       /\ _update_object' = r.obj
       /\ UNCHANGED <<calls, parent_id, retrieve_requests, parent_outcome>>
       /\ UNCHANGED notAssetVars

\* The ids an asset's parent_id may hold, and what assets.retrieve may do.
ParentIds == {Null, "42"}
RetrieveOutcomes == {"returned Asset", "returned None", "raised APIError"}

\* Variant: the test for a missing parent never fires.
ParentIdNeverNone(p) == FALSE

\* if self.parent_id is None
ParentIdIsNone(p) == p = Null

\* Asset.parent() of an asset without parent: raise ValueError("parent_id is None").
ParentRaises ==
    /\ ParentIdIsNone(parent_id)
    /\ parent_outcome' = "ValueError: parent_id is None"
    /\ retrieve_requests' = <<>>
    /\ UNCHANGED <<_update_object, calls, update_outcome, parent_id>>
    /\ UNCHANGED notAssetVars

\* Asset.parent() otherwise: one assets.retrieve(id=self.parent_id), ending as r.
ParentRetrieves(r) ==
    /\ ~ParentIdIsNone(parent_id)
    /\ retrieve_requests' = <<parent_id>>
    /\ parent_outcome' = r
    /\ UNCHANGED <<_update_object, calls, update_outcome, parent_id>>
    /\ UNCHANGED notAssetVars

\* A new AssetUpdate and an Asset as loaded.
AssetConstructed ==
    /\ _update_object = EmptyDict
    /\ calls = <<>>
    /\ update_outcome = [of |-> Null, raised |-> Null]
    /\ parent_id \in ParentIds
    /\ retrieve_requests = <<>>
    /\ parent_outcome = Null

InitAsset == AssetConstructed /\ FanoutUnused /\ JobIdle /\ MatchUnused

NextAsset ==
    \/ \E a \in TypeRefs : put_type(a)
    \/ \E a \in TypeRefs : remove_type(a)
    \/ \E a \in LabelRefs : put_label(a)
    \/ \E a \in LabelRefs : remove_label(a)
    \/ \E name \in {"types", "labels"} : AccessProperty(name)
    \/ ParentRaises
    \/ \E r \in RetrieveOutcomes : ParentRetrieves(r)

SpecAsset == InitAsset /\ [][NextAsset]_vars

(***************************************************************************)
(* Properties of the fan-out resolver, checked under SpecFanout.           *)
(***************************************************************************)
AllDone == \A i \in Tasks : wpc[i] = "done"

RECURSIVE Flatten(_)
Flatten(ss) == IF ss = <<>> THEN <<>> ELSE Head(ss) \o Flatten(Tail(ss))

\* C1: whatever the interleaving of the workers and whatever the overlap between
\* the batches' responses, the collection the resolver returns holds each
\* related-resource id at most once.
C1_EachResourceAtMostOnce ==
    rpc = "returned" => NoDuplicates(resources)

\* Two batches answered with a common resource, and the resolver has returned.
C1_Witness ==
    /\ rpc = "returned"
    /\ \E i, j \in Tasks :
          /\ i # j
          /\ wpc[i] = "done" /\ wpc[j] = "done"
          /\ Range(res[i]) \cap Range(res[j]) # {}

\* C2: when every batch request succeeds, the ids of the returned collection are
\* exactly the union of the ids the batch requests returned, in every order of
\* running and merging.
C2_MembershipIsUnionOfBatches ==
    (rpc = "returned" /\ AllDone) =>
        Range(resources) = UNION {Range(res[i]) : i \in Tasks}

\* Three batches succeeded with different, overlapping answers, and the batch
\* submitted last merged before the batch submitted first.
C2_Witness ==
    /\ rpc = "returned"
    /\ AllDone
    /\ Len(tasks) = 3
    /\ res[1] = <<100, 101>>
    /\ res[3] = <<101>>
    /\ wresources[1] = <<100>>
    /\ wresources[3] = <<101>>

\* C9: on an AssetList with no assets the resolver makes no batch, issues no list
\* request, cannot fail, can return at once, and returns an empty collection.
C9_EmptyInputNoCalls ==
    (ids = <<>> /\ rpc # "idle") =>
        /\ tasks = <<>>
        /\ list_calls = <<>>
        /\ rpc # "raised"
        /\ rpc = "running" => ENABLED FinishReturn
        /\ rpc = "returned" => resources = <<>>

C9_Witness ==
    ids = <<>> /\ rpc = "returned" /\ resources = <<>>

\* C10: n parent ids make ceil(n/100) batches, contiguous slices of the id
\* sequence: all but the last of 100 ids, the last of 1 to 100, their
\* concatenation the id sequence; and each batch gets exactly one list request,
\* with limit -1, once its worker has started.
C10_ContiguousBatchesOfHundred ==
    rpc # "idle" =>
        /\ Len(tasks) = (Len(ids) + 99) \div 100
        /\ \A k \in Tasks : k < Len(tasks) => Len(tasks[k]) = 100
        /\ \A k \in Tasks : k = Len(tasks) => Len(tasks[k]) \in 1..100
        /\ Flatten(tasks) = ids
        /\ \A k \in Tasks :
              list_calls[k] = IF wpc[k] = "pending" THEN <<>> ELSE <<-1>>

\* A collection of more than 200 ids was resolved in three batches.
C10_Witness ==
    /\ rpc = "returned"
    /\ Len(ids) > 200
    /\ Len(tasks) = 3
    /\ AllDone

InMerge(i) == wpc[i] \in {"merging", "adding"}

\* C21: the lock is held during the merge step only: a worker holds it exactly
\* while it is inside the with block, so never while its list request is in
\* flight; at no time are two workers inside the merge step; and the seen-set
\* changes only in a step of the worker that holds the lock.
C21_LockScopedToTheMerge ==
    /\ [](/\ \A i \in Tasks : (lock = i) <=> InMerge(i)
          /\ \A i \in Tasks : wpc[i] = "listing" => lock # i
          /\ Cardinality({i \in Tasks : InMerge(i)}) <= 1
          /\ lock \in Tasks \cup {0})
    /\ [][(rpc = "running" /\ seen' # seen) =>
             (lock # 0 /\ InMerge(lock) /\ lock' = lock)]_vars

\* Two list requests are in flight at once while no worker holds the lock, after
\* an earlier worker has merged.
C21_Witness ==
    /\ \E i, j \in Tasks : i # j /\ wpc[i] = "listing" /\ wpc[j] = "listing"
    /\ \E k \in Tasks : wpc[k] = "done"
    /\ lock = 0
    /\ seen # {}

(***************************************************************************)
(* Properties of the job handles, checked under SpecJob.                   *)
(***************************************************************************)
\* A call of wait_for_completion itself has ended.
WaitEnded == op = "wait_for_completion" /\ jpc = "idle"

\* An access to .result has returned a payload.
ResultReturned == op = "result" /\ jpc = "idle" /\ outcome = Returned

\* C3: wait_for_completion raises the job-failed error exactly when the status of
\* its last poll response is Failed; the error carries the class name, the id and
\* the error message of that response; on any other status outside Queued and
\* Running it returns normally.
C3_RaisesIffLastPollFailed ==
    WaitEnded =>
        /\ outcome.type = "ModelFailedException" <=> Get(last_data, "status") = "Failed"
        /\ outcome.type = "ModelFailedException" =>
              /\ outcome.name = kind
              /\ outcome.id = job_id
              /\ outcome.msg = Get(last_data, "errorMessage")
        /\ Get(last_data, "status") \notin {Null, "Queued", "Running", "Failed"}
              => outcome = Returned
        /\ outcome = Returned =>
              Get(last_data, "status") \notin {Null, "Queued", "Running", "Failed"}

\* A model polled Queued or Running twice, then Failed with a message.
C3_Witness ==
    /\ WaitEnded
    /\ kind = "EntityMatchingModel"
    /\ op_polls = 3
    /\ outcome = ModelFailedException("EntityMatchingModel", job_id, "boom")

\* C4 (as claimed): once an access to .result has returned, the next access
\* returns at once, without a status request, the payload the first returned
\* (the cached self._result, which is still what it was).
C4_ResultCachedAfterFirstAccess ==
    [][(ResultReturned /\ op' = "result") =>
          (jpc' = "idle" /\ op_polls' = 0 /\ _result' = _result)]_vars

\* C5 (as claimed): when an access to .result returns a payload, the status of
\* the handle is terminal and not Failed.
C5_ResultOnlyWhenCompleted ==
    ResultReturned => status \notin {Null, "Queued", "Running", "Failed"}

\* C6 (as claimed): start_timestamp and status_timestamp, once not None, are
\* never None afterwards.
C6_TimestampsNeverRevert ==
    [][/\ start_timestamp # Null => start_timestamp' # Null
       /\ status_timestamp # Null => status_timestamp' # Null]_vars

\* C7 (as claimed): a status of Completed or Failed is final: no operation on the
\* handle changes it.
C7_TerminalStatusIrreversible ==
    [][(status \in {"Completed", "Failed"}) => (status' = status)]_vars

\* C24 (as claimed): once request_timestamp is not None, no operation on the
\* handle changes it.
C24_RequestTimestampKeptOnceSet ==
    [][(request_timestamp # Null) => (request_timestamp' = request_timestamp)]_vars

\* The fields of the handle that update_status assigns.
HandleFields ==
    <<status, status_timestamp, start_timestamp, request_timestamp, error_message,
      _result>>

\* C23: a status request either is answered or fails; when it fails, the error
\* reaches the caller of update_status, wait_for_completion, result, predict or
\* refit as it is, the call ends there without another poll, and status, the
\* timestamps, error_message and the cached payload are what they were.
C23_FailedPollEndsTheCallUntouched ==
    /\ [](outcome = TransportError => jpc = "idle")
    /\ [][(jpc = "poll" \/ (jpc = "idle" /\ op' = "update_status")) =>
             \/ /\ outcome' = TransportError
                /\ jpc' = "idle"
                /\ HandleFields' = HandleFields
                /\ submitted' = NoRequest
             \/ /\ outcome' # TransportError
                /\ last_data' \in Datas
                /\ status' = last_data'["status"]]_vars

\* An access to .result polled Running with a payload, then the next status
\* request failed: the payload and the status are still there.
C23_Witness ==
    /\ op = "result"
    /\ jpc = "idle"
    /\ outcome = TransportError
    /\ op_polls = 2
    /\ status = "Running"
    /\ TruthyDict(_result)
    /\ last_data # NoData

\* C25: update_status never raises the job-failed error: answered Failed, it
\* stores the status and the error message of the response, leaves the id as it
\* is and returns "Failed"; the job-failed error comes from wait_for_completion
\* only, called directly or through result, predict or refit.
C25_UpdateStatusNeverRaisesJobFailed ==
    /\ [](/\ op = "update_status" => outcome.type \in {"returned", "TransportError"}
          /\ outcome.type = "ModelFailedException" =>
                op \in {"wait_for_completion", "result", "predict", "refit"})
    /\ [][(jpc = "idle" /\ op' = "update_status" /\ outcome' # TransportError) =>
             /\ job_id' = job_id
             /\ outcome' = ReturnedValue(last_data'["status"])
             /\ last_data'["status"] = "Failed" =>
                   /\ status' = "Failed"
                   /\ error_message' = Get(last_data', "errorMessage")]_vars

\* update_status was answered Failed with a message, and returned "Failed".
C25_Witness ==
    /\ op = "update_status"
    /\ status = "Failed"
    /\ error_message = "boom"
    /\ last_data # NoData
    /\ outcome = ReturnedValue("Failed")

\* predict or refit has ended, by a return or by a raise.
PostingEnded == op \in {"predict", "refit"} /\ jpc = "idle"

\* C11: predict and refit post their request only after wait_for_completion on
\* the model has returned normally, that is after a poll response whose status is
\* outside Queued and Running and is not Failed; while they wait nothing is posted,
\* and when the last poll reports Failed or a poll raises, the operation raises
\* and has posted nothing.
C11_PostOnlyAfterWaitReturned ==
    /\ jpc \in {"poll", "sleep", "post"} => submitted = NoRequest
    /\ submitted # NoRequest =>
          /\ PostingEnded
          /\ submitted = [path |-> PostPath(op), id |-> job_id]
          /\ Get(last_data, "status") \notin {Null, "Queued", "Running", "Failed"}
          /\ status = Get(last_data, "status")
          /\ outcome \in {Returned, PostError}
    /\ jpc = "post" =>
          Get(last_data, "status") \notin {Null, "Queued", "Running", "Failed"}
    /\ (PostingEnded /\ Get(last_data, "status") = "Failed") =>
          /\ outcome = ModelFailedException(kind, job_id, error_message)
          /\ submitted = NoRequest
    /\ (PostingEnded /\ outcome = TransportError) => submitted = NoRequest
    /\ (PostingEnded /\ outcome = Returned) => submitted # NoRequest

\* predict posted after two polls, the second of which said Completed.
C11_Witness ==
    /\ op = "predict"
    /\ jpc = "idle"
    /\ op_polls = 2
    /\ status = "Completed"
    /\ outcome = Returned
    /\ submitted = [path |-> "/predict", id |-> job_id]

\* The step in which predict or refit returns the new object.
PostReturns == op \in {"predict", "refit"} /\ jpc = "post" /\ jpc' = "idle" /\ outcome' = Returned

\* C12 (as claimed): predict and refit leave the model they are called on
\* untouched: when they return, its id, status and fitted-state fields are what
\* they were when the call was entered.
C12_ModelUntouchedByPredictRefit ==
    [][PostReturns => Snapshot' = before]_vars

\* C12 (amended): predict and refit return a new object and assign nothing to the
\* model themselves: its id and fitted-state fields are what they were at entry,
\* and its status fields are what the last poll of wait_for_completion made them.
C12_OnlyThePollsTouchTheModel ==
    [][PostReturns =>
          /\ job_id' = before.id
          /\ fitted' = before.fitted
          /\ status' = Get(last_data, "status")
          /\ status_timestamp' = Get(last_data, "statusTimestamp")
          /\ start_timestamp' = Get(last_data, "startTimestamp")
          /\ error_message' = Get(last_data, "errorMessage")
          /\ request_timestamp' = request_timestamp
          /\ new_handle' \in [kind : {ReturnedKind(op)}, id : NewIds]
          /\ new_handle'.id # job_id']_vars

\* refit returned a new model for a model that was Queued at entry and is
\* Completed now.
C12_Witness ==
    /\ op = "refit"
    /\ jpc = "idle"
    /\ outcome = Returned
    /\ op_polls = 1
    /\ status = "Completed"
    /\ new_handle = [kind |-> "EntityMatchingModel", id |-> 8]
    /\ job_id = 7

\* C18 (as claimed): on every kind of job handle, the run of a pipeline
\* included, the payload update_status stores, which is what .result returns,
\* holds none of the common status fields and every other field of the poll
\* response, with the value the response gave.
C18_PayloadExcludesCommonFields ==
    (~IsModel /\ last_data # NoData) =>
        /\ DOMAIN _result = DOMAIN last_data \ ContextualizationJobCommonFields
        /\ \A k \in DOMAIN _result : _result[k] = last_data[k]

\* The loop of wait_for_completion is running.
Waiting == jpc \in {"poll", "sleep"}

\* C19: when the server answers some poll with a status outside Queued and
\* Running, wait_for_completion ends; it has then issued as many status requests
\* as responses up to the first such one: every response before the last kept
\* the loop going, the last one is outside Queued and Running; there is at least
\* one poll, whatever status the handle held before; and there is one sleep
\* between two polls and none after the last (counts below the cap are exact).
C19_WaitEndsAtFirstTerminalResponse ==
    /\ [](/\ jpc = "poll" =>
                /\ op_polls >= 1 => Get(last_data, "status") \in {"Queued", "Running"}
                /\ op_polls < MaxPolls => sleeps = op_polls
          /\ jpc = "sleep" =>
                /\ op_polls >= 1
                /\ Get(last_data, "status") \in {"Queued", "Running"}
                /\ op_polls < MaxPolls => sleeps = op_polls - 1
          /\ (WaitEnded /\ outcome # TransportError) =>
                /\ op_polls >= 1
                /\ Get(last_data, "status") \notin {Null, "Queued", "Running"}
                /\ status = Get(last_data, "status")
                /\ op_polls < MaxPolls => sleeps = op_polls - 1)
    /\ (Waiting ~> ~Waiting)

\* A job that was Completed when wait_for_completion was entered has been polled
\* twice, has slept in between, and is about to sleep again.
C19_Witness ==
    /\ op = "wait_for_completion"
    /\ kind = "ContextualizationJob"
    /\ before # NoSnapshot
    /\ before.status = "Completed"
    /\ jpc = "sleep"
    /\ op_polls = 2
    /\ sleeps = 1

\* C20: wait_for_completion neither returns nor raises the job-failed error while
\* the last poll response says Queued or Running; the loop has no bound on its
\* attempts: after any number of polls the next sleep and the next poll, answered
\* Running again, can be taken.
C20_NoExitWhileQueuedOrRunning ==
    /\ (op \in {"wait_for_completion", "result", "predict", "refit"}
          /\ Get(last_data, "status") \in {"Queued", "Running"}) =>
             (Waiting \/ (jpc = "idle" /\ outcome = TransportError))
    /\ jpc = "sleep" => ENABLED Sleep
    /\ jpc = "poll" => ENABLED RunningAnswer

\* A wait that has polled as often as the model counts, was answered Running
\* every time, and is about to poll again.
C20_Witness ==
    /\ op = "wait_for_completion"
    /\ jpc = "poll"
    /\ op_polls = MaxPolls
    /\ sleeps = MaxPolls
    /\ status = "Running"

(***************************************************************************)
(* Properties of convert_true_match and dump_entities, checked under       *)
(* SpecMatch.                                                              *)
(***************************************************************************)

\* C13: convert_true_match maps every pair (a, b) to a dict with exactly two
\* keys, fromExternalId if a is a string and fromId otherwise, toExternalId if b
\* is a string and toId otherwise, holding a and b; a true match given as a dict
\* is returned unchanged, whatever its number of keys.
C13_PairsBecomeTwoKeyDicts ==
    converted # NotCalled =>
        /\ (true_match.t = "tuple" /\ Len(true_match.items) = 2) =>
              LET a == true_match.items[1]
                  b == true_match.items[2]
                  kfrom == IF a.t = "str" THEN "fromExternalId" ELSE "fromId"
                  kto == IF b.t = "str" THEN "toExternalId" ELSE "toId"
              IN /\ converted.t = "dict"
                 /\ DOMAIN converted.items = {kfrom, kto}
                 /\ Cardinality(DOMAIN converted.items) = 2
                 /\ converted.items[kfrom] = a
                 /\ converted.items[kto] = b
        /\ true_match.t = "dict" => converted = true_match

\* The pair (1, "b") has become {fromId: 1, toExternalId: "b"}.
C13_Witness ==
    /\ true_match = PyTuple(<<PyInt("1"), PyStr("b")>>)
    /\ converted # NotCalled
    /\ DOMAIN converted.items = {"fromId", "toExternalId"}

\* C14 (as claimed): dump_entities reduces every entity of the list, resource or
\* plain dict, to exactly its string-valued fields plus its id field.
C14_EveryEntityReducedToStringsAndId ==
    (dumped # NotCalled /\ TruthyList(entities)) =>
        /\ dumped.t = "list"
        /\ Len(dumped.items) = Len(entities.items)
        /\ \A i \in 1..Len(entities.items) :
              LET e == entities.items[i].items
                  o == dumped.items[i].items
              IN /\ DOMAIN o = {k \in DOMAIN e : e[k].t = "str" \/ k = "id"}
                 /\ \A k \in DOMAIN o : o[k] = e[k]

(***************************************************************************)
(* Properties of AssetUpdate and Asset.parent, checked under SpecAsset.    *)
(***************************************************************************)

\* The calls of one function, in call order.
CallsOf(fn) == SelectSeq(calls, LAMBDA c : c.fn = fn)

\* The arguments of the calls of one function, in call order.
ArgsOf(fn) == [i \in 1..Len(CallsOf(fn)) |-> CallsOf(fn)[i].args]

\* The four lists of the update object.
FourLists ==
    <<Bucket(_update_object, "types", "put"), Bucket(_update_object, "types", "remove"),
      Bucket(_update_object, "labels", "put"), Bucket(_update_object, "labels", "remove")>>

\* The function that feeds each of the four lists.
FeederOf == <<"put_type", "remove_type", "put_label", "remove_label">>

\* C15: after any sequence of put_type, remove_type, put_label and remove_label
\* calls on one AssetUpdate, each of types.put, types.remove, labels.put and
\* labels.remove holds exactly the entries of the calls of its function, in call
\* order; a call of one function leaves the other three lists as they were.
C15_FourListsFollowTheirCalls ==
    /\ [](/\ Len(FourLists[1]) = Len(ArgsOf("put_type"))
          /\ \A i \in 1..Len(FourLists[1]) :
                LET a == ArgsOf("put_type")[i]
                IN FourLists[1][i] =
                       [type |-> [id |-> a.id, externalId |-> a.external_id,
                                  version |-> a.version],
                        properties |-> a.properties]
          /\ Len(FourLists[2]) = Len(ArgsOf("remove_type"))
          /\ \A i \in 1..Len(FourLists[2]) :
                LET a == ArgsOf("remove_type")[i]
                IN FourLists[2][i] =
                       [id |-> a.id, externalId |-> a.external_id, version |-> a.version]
          /\ Len(FourLists[3]) = Len(ArgsOf("put_label"))
          /\ \A i \in 1..Len(FourLists[3]) :
                FourLists[3][i] = [externalId |-> ArgsOf("put_label")[i].external_id]
          /\ Len(FourLists[4]) = Len(ArgsOf("remove_label"))
          /\ \A i \in 1..Len(FourLists[4]) :
                FourLists[4][i] = [externalId |-> ArgsOf("remove_label")[i].external_id])
    /\ [][\A n \in 1..4 :
             (calls' # calls /\ calls'[Len(calls')].fn # FeederOf[n])
                 => FourLists[n]' = FourLists[n]]_vars

\* put_label(PUMP), put_type(5), put_label(VALVE) were called in this order.
C15_Witness ==
    /\ Len(calls) = 3
    /\ calls[1].fn = "put_label"
    /\ calls[2].fn = "put_type"
    /\ calls[3].fn = "put_label"
    /\ FourLists[3] = <<[externalId |-> "PUMP"], [externalId |-> "VALVE"]>>
    /\ Len(FourLists[1]) = 1
    /\ FourLists[2] = <<>>

\* C16: reading types or labels of an AssetUpdate always raises, and leaves the
\* update object as it was.
C16_TypesAndLabelsAreNotSettable ==
    /\ [](update_outcome.of \in {"types", "labels"} => update_outcome.raised # Null)
    /\ [][update_outcome'.of \in {"types", "labels"}
             => _update_object' = _update_object]_vars

\* types was read on an update that holds two entries, and raised.
C16_Witness ==
    /\ update_outcome.of = "types"
    /\ update_outcome.raised # Null
    /\ Len(calls) = 2
    /\ Len(FourLists[1]) = 1
    /\ Len(FourLists[4]) = 1

\* C17: parent() of an asset whose parent_id is None raises the missing-parent
\* error and issues no request; a retrieve request is issued only when parent_id
\* is set, and asks for that id.
C17_NoRequestWithoutParentId ==
    /\ (parent_outcome # Null /\ parent_id = Null) =>
          /\ parent_outcome = "ValueError: parent_id is None"
          /\ retrieve_requests = <<>>
    /\ retrieve_requests # <<>> =>
          /\ parent_id # Null
          /\ retrieve_requests = <<parent_id>>
    /\ (parent_outcome # Null /\ parent_id # Null) =>
          /\ parent_outcome \in RetrieveOutcomes
          /\ retrieve_requests = <<parent_id>>

\* parent() was called on an asset without parent.
C17_Witness ==
    /\ parent_id = Null
    /\ parent_outcome = "ValueError: parent_id is None"
    /\ retrieve_requests = <<>>

====
